---------------------------- MODULE Spec2Model ----------------------------
(***************************************************************************)
(* Model of the taqo query-optimizer testing framework:                    *)
(*   - RegressionTest.evaluate and evaluate_queries_for_version            *)
(*     (src/src/tests/regression/scenario.py),                             *)
(*   - parse_ddls and the __main__ dispatch (src/src/runner.py),           *)
(*   - the regression comparator of section 4.4 of the specification.      *)
(***************************************************************************)
EXTENDS Integers, Sequences, FiniteSets, TLC

VARIABLES
    \* ---- RegressionTest.evaluate ----
    pc,                     \* the statement evaluate() is about to run
    raised,                 \* an exception is propagating
    phase,                  \* the orchestrator phase the run has reached
    dbStarted,              \* start_db() returned
    stopAttempted,          \* stop_db() was called
    conn,                   \* the local `conn`: None or a connection
    connState,              \* each connection: "unopened", "open", "closed"
    openedAfterSwitch,      \* each connection: opened after switch_version returned
    switchStarted,          \* switch_version() was called
    switchDone,             \* switch_version() returned
    stmts,                  \* the statements executed so far
    queries,                \* the Query objects of model.get_queries()
    counter,                \* the loop position in evaluate_queries_for_version
    version_queries,        \* the local list of evaluate_queries_for_version
    first_version_queries,
    second_version_queries,
    zipIdx,                 \* position of the zip() loop of line 74
    reportPairs,            \* what report.add_query received
    reportBuilt,
    reportPublished,
    evaluated,              \* <<version, query>>: the evaluation was started
    failed,                 \* <<version, query>>: the evaluation raised
    \* ---- parse_ddls ----
    dpc, ddl_tokens, ddl_perm, ddl_result, ddl_result_perm,
    \* ---- comparator ----
    cpc, reference, candidate, cmp_ab, cmp_ba,
    \* ---- runner.py __main__ ----
    mpc, args, main_ddls, main_evaluated, main_prompted, main_loaded,
    main_generated, main_exit

scenVars == <<pc, raised, phase, dbStarted, stopAttempted, conn, connState,
              openedAfterSwitch, switchStarted, switchDone, stmts, queries,
              counter, version_queries, first_version_queries,
              second_version_queries, zipIdx, reportPairs, reportBuilt,
              reportPublished, evaluated, failed>>
ddlVars  == <<dpc, ddl_tokens, ddl_perm, ddl_result, ddl_result_perm>>
cmpVars  == <<cpc, reference, candidate, cmp_ab, cmp_ba>>
mainVars == <<mpc, args, main_ddls, main_evaluated, main_prompted, main_loaded,
              main_generated, main_exit>>
vars == <<scenVars, ddlVars, cmpVars, mainVars>>

None == "None"

Range(s) == {s[i] : i \in 1..Len(s)}

Min(a, b) == IF a <= b THEN a ELSE b

(***************************************************************************)
(* Bounds                                                                  *)
(***************************************************************************)
MaxQueries == 2     \* queries returned by model.get_queries
MaxTokens == 3      \* comma-separated tokens of a --ddls selector
MaxTiming == 22     \* largest ordinary aggregated timing

(***************************************************************************)
(* PART 1: RegressionTest (scenario.py)                                    *)
(***************************************************************************)
ConnIds == {1, 2}

\* line 43: conn = None
NoConn == 0

\* A Query object as get_queries returns it: nothing measured yet.
NewQuery == [execution_plan |-> 0, optimizer_score |-> 0, execution_time |-> 0]

\* The state before evaluate() runs, but for pc.
ScenIdleRest ==
    /\ raised = FALSE
    /\ phase = "INIT"
    /\ dbStarted = FALSE
    /\ stopAttempted = FALSE
    /\ conn = NoConn
    /\ connState = [c \in ConnIds |-> "unopened"]
    /\ openedAfterSwitch = [c \in ConnIds |-> FALSE]
    /\ switchStarted = FALSE
    /\ switchDone = FALSE
    /\ stmts = {}
    /\ queries = <<>>
    /\ counter = 0
    /\ version_queries = <<>>
    /\ first_version_queries = <<>>
    /\ second_version_queries = <<>>
    /\ zipIdx = 0
    /\ reportPairs = <<>>
    /\ reportBuilt = FALSE
    /\ reportPublished = FALSE
    /\ evaluated = {}
    /\ failed = {}

ScenInitBody == pc = "start_db" /\ ScenIdleRest

\* An exception raised inside the try block of evaluate(): control moves to
\* the finally block (line 77) with the exception pending.
ToFinally ==
    /\ pc' = "build_report"
    /\ raised' = TRUE
    /\ phase' = "FAILED"

\* An exception raised outside the try block or inside the finally block:
\* it leaves evaluate() at once.
Escape ==
    /\ pc' = "done"
    /\ raised' = TRUE
    /\ phase' = "FAILED"

\* A statement executed through a cursor of connection c.
Stmt(c, v) == [conn |-> c, version |-> v, afterSwitchStart |-> switchStarted]

\* line 41-43: self.start_db(); conn = None
StartDb ==
    /\ pc = "start_db"
    /\ \E ok \in BOOLEAN :
         IF ok
         THEN /\ dbStarted' = TRUE
              /\ pc' = "connect1"
              /\ UNCHANGED <<raised, phase>>
         ELSE /\ Escape
              /\ UNCHANGED dbStarted
    /\ conn' = NoConn
    /\ UNCHANGED <<ddlVars, cmpVars, mainVars>>
    /\ UNCHANGED <<stopAttempted, connState, openedAfterSwitch, switchStarted,
                   switchDone, stmts, queries, counter, version_queries,
                   first_version_queries, second_version_queries, zipIdx,
                   reportPairs, reportBuilt, reportPublished, evaluated, failed>>

\* The connection connect_to_db() returns: a new one each time.
NewConn == IF pc = "connect1" THEN 1 ELSE 2

\* line 46 and line 64: conn = self.connect_to_db()
Connect ==
    /\ pc \in {"connect1", "connect2"}
    /\ \E ok \in BOOLEAN :
         IF ok
         THEN /\ conn' = NewConn
              /\ connState' = [connState EXCEPT ![NewConn] = "open"]
              /\ openedAfterSwitch' = [openedAfterSwitch EXCEPT ![NewConn] = switchDone]
              /\ pc' = IF pc = "connect1" THEN "version1" ELSE "version2"
              /\ UNCHANGED <<raised, phase>>
         ELSE /\ ToFinally
              /\ UNCHANGED <<conn, connState, openedAfterSwitch>>
    /\ UNCHANGED <<ddlVars, cmpVars, mainVars>>
    /\ UNCHANGED <<dbStarted, stopAttempted, switchStarted, switchDone, stmts,
                   queries, counter, version_queries, first_version_queries,
                   second_version_queries, zipIdx, reportPairs, reportBuilt,
                   reportPublished, evaluated, failed>>

\* line 48-50 and line 66-68: SELECT VERSION() through a cursor of conn
SelectVersion ==
    /\ pc \in {"version1", "version2"}
    /\ stmts' = stmts \cup {Stmt(conn, IF pc = "version1" THEN 1 ELSE 2)}
    /\ \E ok \in BOOLEAN :
         IF ok
         THEN /\ pc' = IF pc = "version1" THEN "create_tables" ELSE "define_version"
              /\ UNCHANGED <<raised, phase>>
         ELSE ToFinally
    /\ UNCHANGED <<ddlVars, cmpVars, mainVars>>
    /\ UNCHANGED <<dbStarted, stopAttempted, conn, connState, openedAfterSwitch,
                   switchStarted, switchDone, queries, counter, version_queries,
                   first_version_queries, second_version_queries, zipIdx,
                   reportPairs, reportBuilt, reportPublished, evaluated, failed>>

\* line 53-55: model.create_tables(conn); queries = model.get_queries(...)
\* line 57: the call of evaluate_queries_for_version starts (lines 16-18)
CreateTables ==
    /\ pc = "create_tables"
    /\ stmts' = stmts \cup {Stmt(conn, 1)}
    /\ \/ \E n \in 0..MaxQueries :
            /\ queries' = [k \in 1..n |-> NewQuery]
            /\ phase' = "PROVISIONED"
            /\ pc' = "collect1"
            /\ version_queries' = <<>>
            /\ counter' = 1
            /\ UNCHANGED raised
       \/ /\ ToFinally
          /\ UNCHANGED <<queries, version_queries, counter>>
    /\ UNCHANGED <<ddlVars, cmpVars, mainVars>>
    /\ UNCHANGED <<dbStarted, stopAttempted, conn, connState, openedAfterSwitch,
                   switchStarted, switchDone, first_version_queries,
                   second_version_queries, zipIdx, reportPairs, reportBuilt,
                   reportPublished, evaluated, failed>>

Version == IF pc = "collect1" THEN 1 ELSE 2

\* lines 23-30: what one pass of the loop body leaves in the Query object,
\* by the statement that raised ("ok": none did).
Measured(q, v, outcome) ==
    CASE outcome = "explain_failed" -> q
      [] outcome = "score_failed"   -> [q EXCEPT !.execution_plan = v]
      [] outcome = "timing_failed"  -> [q EXCEPT !.execution_plan = v,
                                                 !.optimizer_score = v]
      [] OTHER                      -> [q EXCEPT !.execution_plan = v,
                                                 !.optimizer_score = v,
                                                 !.execution_time = v]

Outcomes == {"ok", "explain_failed", "score_failed", "timing_failed"}

\* The loop stopping one query short of the list.
LoopDoneEarly(i) == i >= Len(queries)

\* line 19: the for loop has no query left
LoopDone(i) == i > Len(queries)

\* lines 19-36: one pass of the loop of evaluate_queries_for_version.  The
\* handler of line 33 raises the exception again, so a failure leaves the
\* function, and evaluate()'s try block, after `counter += 1`.
EvaluateQuery ==
    /\ pc \in {"collect1", "collect2"}
    /\ ~LoopDone(counter)
    /\ \E outcome \in Outcomes :
         /\ stmts' = stmts \cup {Stmt(conn, Version)}
         /\ evaluated' = evaluated \cup {<<Version, counter>>}
         /\ queries' = [queries EXCEPT ![counter] = Measured(@, Version, outcome)]
         /\ counter' = counter + 1
         /\ IF outcome = "ok"
            THEN /\ version_queries' = Append(version_queries, counter)
                 /\ UNCHANGED <<pc, raised, phase, failed>>
            ELSE /\ failed' = failed \cup {<<Version, counter>>}
                 /\ ToFinally
                 /\ UNCHANGED version_queries
    /\ UNCHANGED <<ddlVars, cmpVars, mainVars>>
    /\ UNCHANGED <<dbStarted, stopAttempted, conn, connState, openedAfterSwitch,
                   switchStarted, switchDone, first_version_queries,
                   second_version_queries, zipIdx, reportPairs, reportBuilt,
                   reportPublished>>

\* line 38 with line 57 or line 72: return version_queries
CollectReturn ==
    /\ pc \in {"collect1", "collect2"}
    /\ LoopDone(counter)
    /\ IF pc = "collect1"
       THEN /\ first_version_queries' = version_queries
            /\ phase' = "COLLECTED_V1"
            /\ pc' = "close1"
            /\ UNCHANGED <<second_version_queries, zipIdx>>
       ELSE /\ second_version_queries' = version_queries
            /\ phase' = "COLLECTED_V2"
            /\ pc' = "add_query"
            /\ zipIdx' = 1
            /\ UNCHANGED first_version_queries
    /\ UNCHANGED <<ddlVars, cmpVars, mainVars>>
    /\ UNCHANGED <<raised, dbStarted, stopAttempted, conn, connState,
                   openedAfterSwitch, switchStarted, switchDone, stmts, queries,
                   counter, version_queries, reportPairs, reportBuilt,
                   reportPublished, evaluated, failed>>

\* A close() that leaves the connection open.
KeptOpen(cs, c) == cs

\* line 59 and line 83: conn.close() returns, the connection is closed
Closed(cs, c) == [cs EXCEPT ![c] = "closed"]

\* line 59: conn.close()
CloseV1 ==
    /\ pc = "close1"
    /\ \E ok \in BOOLEAN :
         IF ok
         THEN /\ connState' = Closed(connState, conn)
              /\ pc' = "switch"
              /\ UNCHANGED <<raised, phase>>
         ELSE /\ ToFinally
              /\ UNCHANGED connState
    /\ UNCHANGED <<ddlVars, cmpVars, mainVars>>
    /\ UNCHANGED <<dbStarted, stopAttempted, conn, openedAfterSwitch,
                   switchStarted, switchDone, stmts, queries, counter,
                   version_queries, first_version_queries,
                   second_version_queries, zipIdx, reportPairs, reportBuilt,
                   reportPublished, evaluated, failed>>

\* line 61: self.switch_version()
SwitchVersion ==
    /\ pc = "switch"
    /\ switchStarted' = TRUE
    /\ \E ok \in BOOLEAN :
         IF ok
         THEN /\ switchDone' = TRUE
              /\ phase' = "SWITCHED"
              /\ pc' = "connect2"
              /\ UNCHANGED raised
         ELSE /\ ToFinally
              /\ UNCHANGED switchDone
    /\ UNCHANGED <<ddlVars, cmpVars, mainVars>>
    /\ UNCHANGED <<dbStarted, stopAttempted, conn, connState, openedAfterSwitch,
                   stmts, queries, counter, version_queries,
                   first_version_queries, second_version_queries, zipIdx,
                   reportPairs, reportBuilt, reportPublished, evaluated, failed>>

\* line 70: self.report.define_version(...)
\* line 72: the call of evaluate_queries_for_version starts (lines 16-18)
DefineVersion ==
    /\ pc = "define_version"
    /\ \E ok \in BOOLEAN :
         IF ok
         THEN /\ pc' = "collect2"
              /\ version_queries' = <<>>
              /\ counter' = 1
              /\ UNCHANGED <<raised, phase>>
         ELSE /\ ToFinally
              /\ UNCHANGED <<version_queries, counter>>
    /\ UNCHANGED <<ddlVars, cmpVars, mainVars>>
    /\ UNCHANGED <<dbStarted, stopAttempted, conn, connState, openedAfterSwitch,
                   switchStarted, switchDone, stmts, queries,
                   first_version_queries, second_version_queries, zipIdx,
                   reportPairs, reportBuilt, reportPublished, evaluated, failed>>

\* line 74: zip() stops at the shorter list
ZipLen == Min(Len(first_version_queries), Len(second_version_queries))

\* lines 74-76: one pass of the zip loop.  Both lists hold references to the
\* Query objects of `queries`, so the pair is read through them.
AddQuery ==
    /\ pc = "add_query"
    /\ zipIdx <= ZipLen
    /\ \E ok \in BOOLEAN :
         IF ok
         THEN /\ reportPairs' = Append(reportPairs,
                    [query     |-> first_version_queries[zipIdx],
                     reference |-> queries[first_version_queries[zipIdx]],
                     candidate |-> queries[second_version_queries[zipIdx]]])
              /\ zipIdx' = zipIdx + 1
              /\ UNCHANGED <<pc, raised, phase>>
         ELSE /\ ToFinally
              /\ UNCHANGED <<reportPairs, zipIdx>>
    /\ UNCHANGED <<ddlVars, cmpVars, mainVars>>
    /\ UNCHANGED <<dbStarted, stopAttempted, conn, connState, openedAfterSwitch,
                   switchStarted, switchDone, stmts, queries, counter,
                   version_queries, first_version_queries,
                   second_version_queries, reportBuilt, reportPublished,
                   evaluated, failed>>

\* line 74, the zip loop ends: the try block is left normally
AddQueryDone ==
    /\ pc = "add_query"
    /\ zipIdx > ZipLen
    /\ phase' = "COMPARED"
    /\ pc' = "build_report"
    /\ UNCHANGED <<ddlVars, cmpVars, mainVars>>
    /\ UNCHANGED <<raised, dbStarted, stopAttempted, conn, connState,
                   openedAfterSwitch, switchStarted, switchDone, stmts, queries,
                   counter, version_queries, first_version_queries,
                   second_version_queries, zipIdx, reportPairs, reportBuilt,
                   reportPublished, evaluated, failed>>

\* line 79: self.report.build_report(), inside the finally block
BuildReport ==
    /\ pc = "build_report"
    /\ \E ok \in BOOLEAN :
         IF ok
         THEN /\ reportBuilt' = TRUE
              /\ pc' = "publish_report"
              /\ UNCHANGED <<raised, phase>>
         ELSE /\ Escape
              /\ UNCHANGED reportBuilt
    /\ UNCHANGED <<ddlVars, cmpVars, mainVars>>
    /\ UNCHANGED <<dbStarted, stopAttempted, conn, connState, openedAfterSwitch,
                   switchStarted, switchDone, stmts, queries, counter,
                   version_queries, first_version_queries,
                   second_version_queries, zipIdx, reportPairs, reportPublished,
                   evaluated, failed>>

\* line 80: self.report.publish_report("regression")
PublishReport ==
    /\ pc = "publish_report"
    /\ \E ok \in BOOLEAN :
         IF ok
         THEN /\ reportPublished' = TRUE
              /\ pc' = "fin_close"
              /\ phase' = IF raised THEN phase ELSE "REPORTED"
              /\ UNCHANGED raised
         ELSE /\ Escape
              /\ UNCHANGED reportPublished
    /\ UNCHANGED <<ddlVars, cmpVars, mainVars>>
    /\ UNCHANGED <<dbStarted, stopAttempted, conn, connState, openedAfterSwitch,
                   switchStarted, switchDone, stmts, queries, counter,
                   version_queries, first_version_queries,
                   second_version_queries, zipIdx, reportPairs, reportBuilt,
                   evaluated, failed>>

\* line 83: conn.close() in the finally block.  With conn still None the
\* attribute access raises; closing a closed connection changes nothing.
FinallyClose ==
    /\ pc = "fin_close"
    /\ \/ /\ conn = NoConn
          /\ Escape
          /\ UNCHANGED connState
       \/ /\ conn # NoConn
          /\ connState' = Closed(connState, conn)
          /\ pc' = "stop_db"
          /\ UNCHANGED <<raised, phase>>
       \/ /\ conn # NoConn
          /\ Escape
          /\ UNCHANGED connState
    /\ UNCHANGED <<ddlVars, cmpVars, mainVars>>
    /\ UNCHANGED <<dbStarted, stopAttempted, conn, openedAfterSwitch,
                   switchStarted, switchDone, stmts, queries, counter,
                   version_queries, first_version_queries,
                   second_version_queries, zipIdx, reportPairs, reportBuilt,
                   reportPublished, evaluated, failed>>

\* line 86: self.stop_db(); then the pending exception, if any, is raised
StopDb ==
    /\ pc = "stop_db"
    /\ stopAttempted' = TRUE
    /\ pc' = "done"
    /\ \E ok \in BOOLEAN :
         IF ok /\ ~raised
         THEN /\ phase' = "DONE"
              /\ UNCHANGED raised
         ELSE /\ raised' = TRUE
              /\ phase' = "FAILED"
    /\ UNCHANGED <<ddlVars, cmpVars, mainVars>>
    /\ UNCHANGED <<dbStarted, conn, connState, openedAfterSwitch, switchStarted,
                   switchDone, stmts, queries, counter, version_queries,
                   first_version_queries, second_version_queries, zipIdx,
                   reportPairs, reportBuilt, reportPublished, evaluated, failed>>

ScenNext ==
    \/ StartDb
    \/ Connect
    \/ SelectVersion
    \/ CreateTables
    \/ EvaluateQuery
    \/ CollectReturn
    \/ CloseV1
    \/ SwitchVersion
    \/ DefineVersion
    \/ AddQuery
    \/ AddQueryDone
    \/ BuildReport
    \/ PublishReport
    \/ FinallyClose
    \/ StopDb

(***************************************************************************)
(* PART 2: parse_ddls (runner.py)                                          *)
(* A string is the sequence of its characters.                             *)
(***************************************************************************)
W_database == <<"d", "a", "t", "a", "b", "a", "s", "e">>
W_create   == <<"c", "r", "e", "a", "t", "e">>
W_import   == <<"i", "m", "p", "o", "r", "t">>
W_drop     == <<"d", "r", "o", "p">>
W_analyze  == <<"a", "n", "a", "l", "y", "z", "e">>
W_none     == <<"n", "o", "n", "e">>
W_recreate == <<"r", "e", "c", "r", "e", "a", "t", "e">>
W_dropped  == <<"d", "r", "o", "p", "p", "e", "d">>
W_empty    == << >>

\* The tokens a selector is drawn from: the five step names, "none", two
\* longer words that contain a step name, and the empty token.
Vocabulary == {W_database, W_create, W_import, W_drop, W_analyze, W_none,
               W_recreate, W_dropped, W_empty}

DDLSteps == {"DATABASE", "CREATE", "IMPORT", "DROP", "ANALYZE"}

\* The token that names each DDLStep in the selector.
StepToken(step) ==
    CASE step = "DATABASE" -> W_database
      [] step = "CREATE"   -> W_create
      [] step = "IMPORT"   -> W_import
      [] step = "DROP"     -> W_drop
      [] OTHER             -> W_analyze

\* ",".join(tokens): the selector string as given on the command line.
RECURSIVE Join(_)
Join(tokens) ==
    IF Len(tokens) = 0 THEN << >>
    ELSE IF Len(tokens) = 1 THEN tokens[1]
    ELSE tokens[1] \o <<",">> \o Join(Tail(tokens))

\* hay.startswith(needle)
StartsWith(needle, hay) ==
    /\ Len(needle) <= Len(hay)
    /\ SubSeq(hay, 1, Len(needle)) = needle

\* lines 26-34: Python's `needle in hay` on strings
Contains(needle, hay) ==
    \E i \in 0..(Len(hay) - Len(needle)) :
        SubSeq(hay, i + 1, i + Len(needle)) = needle

\* lines 20-37
parse_ddls(ddl_ops) ==
    IF ddl_ops = W_none
    THEN {}
    ELSE {step \in DDLSteps : Contains(StepToken(step), ddl_ops)}

Selectors ==
    UNION {[1..n -> Vocabulary] : n \in 1..MaxTokens}

\* The rearrangements of a selector's tokens: every order, a token possibly
\* repeated.
Rearrangements(tokens) ==
    {p \in UNION {[1..n -> Range(tokens)] : n \in Len(tokens)..(Len(tokens) + 1)} :
        Range(p) = Range(tokens)}

DdlInitBody ==
    /\ dpc = "start"
    /\ ddl_tokens \in Selectors
    /\ ddl_perm \in Rearrangements(ddl_tokens)
    /\ ddl_result = {}
    /\ ddl_result_perm = {}

DdlIdle ==
    /\ dpc = "idle"
    /\ ddl_tokens = << >>
    /\ ddl_perm = << >>
    /\ ddl_result = {}
    /\ ddl_result_perm = {}

\* line 198: ddls = parse_ddls(args.ddls), on the selector and on its
\* rearrangement
ParseDdls ==
    /\ dpc = "start"
    /\ ddl_result' = parse_ddls(Join(ddl_tokens))
    /\ ddl_result_perm' = parse_ddls(Join(ddl_perm))
    /\ dpc' = "parsed"
    /\ UNCHANGED <<ddl_tokens, ddl_perm>>
    /\ UNCHANGED <<scenVars, cmpVars, mainVars>>

DdlNext ==
    \/ ParseDdls

(***************************************************************************)
(* PART 3: the regression comparator, section 4.4 of the specification.    *)
(* Timings are whole numbers of time units; a delta is the fraction        *)
(* num / den with den > 0.                                                 *)
(***************************************************************************)
\* skip-percentage-delta, 0.05 = 5 / 100
SkipPctNum == 5
SkipPctDen == 100
test_query_timeout == 1200
skip_timeout_delta == 1

Timings ==
    (1..MaxTiming) \cup {test_query_timeout - skip_timeout_delta,
                         test_query_timeout + skip_timeout_delta}

\* A QueryResult as the comparator reads it: whether any sample was retained
\* and the aggregated timing.
QueryResults == [executed : BOOLEAN, timing : Timings]

\* rule 1 and rule 2: a side that did not execute, or whose timing reaches
\* the timeout within the tolerance
SkippedSide(r) ==
    \/ ~r.executed
    \/ r.timing >= test_query_timeout - skip_timeout_delta

\* The difference taken relative to the candidate's timing.
DeltaOverCandidate(ref, cand) ==
    [num |-> cand.timing - ref.timing, den |-> cand.timing]

\* rule 3: delta = (candidate.timing - reference.timing) / reference.timing
Delta(ref, cand) ==
    [num |-> cand.timing - ref.timing, den |-> ref.timing]

\* rule 3: strict thresholds on either side
Classify(d) ==
    IF d.num * SkipPctDen > SkipPctNum * d.den THEN "REGRESSED"
    ELSE IF d.num * SkipPctDen < (0 - SkipPctNum) * d.den THEN "IMPROVED"
    ELSE "UNCHANGED"

compare(ref, cand) ==
    IF SkippedSide(ref) \/ SkippedSide(cand)
    THEN [classification |-> "SKIPPED", delta |-> [num |-> 0, den |-> 1]]
    ELSE [classification |-> Classify(Delta(ref, cand)),
          delta |-> Delta(ref, cand)]

CmpInitBody ==
    /\ cpc = "start"
    /\ reference \in QueryResults
    /\ candidate \in QueryResults
    /\ cmp_ab = None
    /\ cmp_ba = None

CmpIdle ==
    /\ cpc = "idle"
    /\ reference = None
    /\ candidate = None
    /\ cmp_ab = None
    /\ cmp_ba = None

\* compare(A, B) and compare(B, A)
Compare ==
    /\ cpc = "start"
    /\ cmp_ab' = compare(reference, candidate)
    /\ cmp_ba' = compare(candidate, reference)
    /\ cpc' = "compared"
    /\ UNCHANGED <<reference, candidate>>
    /\ UNCHANGED <<scenVars, ddlVars, mainVars>>

CmpNext ==
    \/ Compare

(***************************************************************************)
(* PART 4: the __main__ block of runner.py                                 *)
(***************************************************************************)
ReportTypes == {"taqo", "score", "score_xls", "regression", "regression_xls",
                "comparison", "selectivity"}

\* The command lines: the action, --output, --type, --yes and --pg-results.
ArgSets ==
    [action     : {"collect", "report", "other"},
     output     : {None, "out"},
     type       : ReportTypes \cup {None, "bogus"},
     yes        : BOOLEAN,
     pg_results : {None, "pg.json"}]

\* line 120: the default of --ddls, "database,create,analyze,import,drop"
DefaultDdls == Join(<<W_database, W_create, W_analyze, W_import, W_drop>>)

MainInitBody ==
    /\ mpc = "setup"
    /\ args \in ArgSets
    /\ main_ddls = {}
    /\ main_evaluated = FALSE
    /\ main_prompted = FALSE
    /\ main_loaded = << >>
    /\ main_generated = None
    /\ main_exit = None

MainIdle ==
    /\ mpc = "idle"
    /\ args = None
    /\ main_ddls = {}
    /\ main_evaluated = FALSE
    /\ main_prompted = FALSE
    /\ main_loaded = << >>
    /\ main_generated = None
    /\ main_exit = None

\* lines 195-256: the arguments and the configuration file are read, the
\* Config and the loader are built
Setup ==
    /\ mpc = "setup"
    /\ \/ /\ main_ddls' = parse_ddls(DefaultDdls)
          /\ mpc' = "dispatch"
          /\ UNCHANGED main_exit
       \/ /\ mpc' = "done"
          /\ main_exit' = "exception"
          /\ UNCHANGED main_ddls
    /\ UNCHANGED <<args, main_evaluated, main_prompted, main_loaded, main_generated>>
    /\ UNCHANGED <<scenVars, ddlVars, cmpVars>>

\* line 258 and line 276: the action is dispatched; any other action does
\* nothing
Dispatch ==
    /\ mpc = "dispatch"
    /\ IF args.action = "collect"
       THEN mpc' = "validate" /\ UNCHANGED main_exit
       ELSE IF args.action = "report"
       THEN mpc' = "report" /\ UNCHANGED main_exit
       ELSE mpc' = "done" /\ main_exit' = "ok"
    /\ UNCHANGED <<args, main_ddls, main_evaluated, main_prompted, main_loaded,
                   main_generated>>
    /\ UNCHANGED <<scenVars, ddlVars, cmpVars>>

\* The validation of --output left out.
NeverMissing(a) == FALSE

\* line 266: args.output is None
OutputMissing(a) == a.output = None

\* lines 266-271: the validation of --output, then the choice of the prompt
ValidateOutput ==
    /\ mpc = "validate"
    /\ IF OutputMissing(args)
       THEN mpc' = "done" /\ main_exit' = "validation_error"
       ELSE /\ mpc' = IF args.yes THEN "evaluate" ELSE "prompt"
            /\ UNCHANGED main_exit
    /\ UNCHANGED <<args, main_ddls, main_evaluated, main_prompted, main_loaded,
                   main_generated>>
    /\ UNCHANGED <<scenVars, ddlVars, cmpVars>>

\* line 271: input("Validate configuration carefully and press Enter...")
Prompt ==
    /\ mpc = "prompt"
    /\ main_prompted' = TRUE
    /\ mpc' = "evaluate"
    /\ UNCHANGED <<args, main_ddls, main_evaluated, main_loaded, main_generated,
                   main_exit>>
    /\ UNCHANGED <<scenVars, ddlVars, cmpVars>>

\* lines 273-275: Scenario(config).evaluate()
Evaluate ==
    /\ mpc = "evaluate"
    /\ main_evaluated' = TRUE
    /\ mpc' = "done"
    /\ \E ok \in BOOLEAN : main_exit' = IF ok THEN "ok" ELSE "exception"
    /\ UNCHANGED <<args, main_ddls, main_prompted, main_loaded, main_generated>>
    /\ UNCHANGED <<scenVars, ddlVars, cmpVars>>

\* lines 282-330: the results files loader.get_queries_from_previous_result
\* is called on, by report type
ResultsFor(a) ==
    CASE a.type \in {"taqo", "score", "score_xls", "comparison"} ->
            IF a.pg_results # None THEN <<"results", "pg_results">>
                                   ELSE <<"results">>
      [] a.type \in {"regression", "regression_xls"} ->
            <<"v1_results", "v2_results">>
      [] a.type = "selectivity" ->
            <<"default_results", "default_analyze_results", "ta_results",
              "ta_analyze_results", "stats_results", "stats_analyze_results">>
      [] OTHER -> << >>

\* lines 282-322: args.type names a report
KnownType(t) == t \in ReportTypes

\* lines 282-330: the loads of the branch args.type selects
LoadResults ==
    /\ mpc = "report"
    /\ KnownType(args.type)
    /\ \/ /\ main_loaded' = ResultsFor(args)
          /\ mpc' = "generate"
          /\ UNCHANGED main_exit
       \/ \E n \in 1..Len(ResultsFor(args)) :
            /\ main_loaded' = SubSeq(ResultsFor(args), 1, n)
            /\ mpc' = "done"
            /\ main_exit' = "exception"
    /\ UNCHANGED <<args, main_ddls, main_evaluated, main_prompted, main_generated>>
    /\ UNCHANGED <<scenVars, ddlVars, cmpVars>>

\* lines 287-332: generate_report of the report class of args.type
GenerateReport ==
    /\ mpc = "generate"
    /\ main_generated' = args.type
    /\ mpc' = "done"
    /\ \E ok \in BOOLEAN : main_exit' = IF ok THEN "ok" ELSE "exception"
    /\ UNCHANGED <<args, main_ddls, main_evaluated, main_prompted, main_loaded>>
    /\ UNCHANGED <<scenVars, ddlVars, cmpVars>>

\* lines 334-335: raise AttributeError(...)
UnknownType ==
    /\ mpc = "report"
    /\ ~KnownType(args.type)
    /\ mpc' = "done"
    /\ main_exit' = "AttributeError"
    /\ UNCHANGED <<args, main_ddls, main_evaluated, main_prompted, main_loaded,
                   main_generated>>
    /\ UNCHANGED <<scenVars, ddlVars, cmpVars>>

MainNext ==
    \/ Setup
    \/ Dispatch
    \/ ValidateOutput
    \/ Prompt
    \/ Evaluate
    \/ LoadResults
    \/ GenerateReport
    \/ UnknownType

(***************************************************************************)
(* Specifications                                                          *)
(***************************************************************************)
Init == ScenInitBody /\ DdlIdle /\ CmpIdle /\ MainIdle
Next == ScenNext
Spec == Init /\ [][Next]_vars

DdlInit == DdlInitBody /\ pc = "idle" /\ ScenIdleRest /\ CmpIdle /\ MainIdle
SpecDdl == DdlInit /\ [][DdlNext]_vars

CmpInit == CmpInitBody /\ pc = "idle" /\ ScenIdleRest /\ DdlIdle /\ MainIdle
SpecCmp == CmpInit /\ [][CmpNext]_vars

MainInit == MainInitBody /\ pc = "idle" /\ ScenIdleRest /\ DdlIdle /\ CmpIdle
SpecMain == MainInit /\ [][MainNext]_vars

(***************************************************************************)
(* Claims                                                                  *)
(***************************************************************************)

\* C1: whenever evaluate() has exited after start_db() succeeded, stop_db()
\* has been attempted, whichever later step failed.
C1_TeardownAttempted ==
    (pc = "done" /\ dbStarted) => stopAttempted

\* C2: a failure while evaluating one query is confined to that query: once
\* the collection on that version is over, every later query of the list
\* has been evaluated on that version.
C2_FailureConfined ==
    \A f \in failed :
        pc \notin {"collect1", "collect2"} =>
            \A j \in (f[2] + 1)..Len(queries) : <<f[1], j>> \in evaluated

\* What a Query object holds when everything in it was measured on version v.
MeasuredOn(q, v) ==
    /\ q.execution_plan = v
    /\ q.optimizer_score = v
    /\ q.execution_time = v

\* C3: every pair handed to report.add_query has a reference result holding
\* the plan, score and timing measured on version 1 and a candidate result
\* holding those measured on version 2.
C3_PairsHoldBothVersions ==
    \A i \in 1..Len(reportPairs) :
        /\ MeasuredOn(reportPairs[i].reference, 1)
        /\ MeasuredOn(reportPairs[i].candidate, 2)

OpenConns == {c \in ConnIds : connState[c] = "open"}

\* C4: at most one connection is open at any time; the version-1 connection
\* is closed when switch_version starts and no statement runs on it
\* afterwards; every version-2 statement runs on a connection opened after
\* switch_version completed.
C4_ConnectionNotShared ==
    /\ Cardinality(OpenConns) <= 1
    /\ switchStarted => connState[1] = "closed"
    /\ \A s \in stmts :
         /\ s.conn \in ConnIds
         /\ s.conn = 1 => ~s.afterSwitchStart
         /\ s.version = 2 => (s.conn # 1 /\ openedAfterSwitch[s.conn])

\* C4 witness: a version-2 statement has run on the second connection, the
\* first one being closed.
C4_Witness ==
    /\ \E s \in stmts : s.version = 2 /\ s.conn = 2
    /\ connState[1] = "closed"
    /\ pc = "collect2"

PhaseSucc ==
    {<<"INIT", "PROVISIONED">>, <<"PROVISIONED", "COLLECTED_V1">>,
     <<"COLLECTED_V1", "SWITCHED">>, <<"SWITCHED", "COLLECTED_V2">>,
     <<"COLLECTED_V2", "COMPARED">>, <<"COMPARED", "REPORTED">>,
     <<"REPORTED", "DONE">>}

Terminal == {"DONE", "FAILED"}

\* Every query of the list was evaluated on version v and none failed.
AllCollected(v) ==
    \A k \in 1..Len(queries) : <<v, k>> \in evaluated /\ <<v, k>> \notin failed

\* The zip loop of line 74 ran to its end.
ComparedAll == zipIdx >= 1 /\ zipIdx > ZipLen

PhaseOrder ==
    phase' # phase =>
        \/ <<phase, phase'>> \in PhaseSucc
        \/ phase \notin Terminal /\ phase' = "FAILED"

CollectionOrder ==
    /\ switchStarted' => (AllCollected(1))'
    /\ Len(reportPairs') > 0 => (AllCollected(1) /\ AllCollected(2))'

\* C5 as stated: the phases are taken in order, none skipped, a fatal error
\* leading to FAILED; the switch starts only after every query was collected
\* on version 1, add_query only after every query was collected on version
\* 2, and the report is built and published only after the comparison of
\* all pairs has completed.
C5_Original ==
    [][/\ PhaseOrder
       /\ CollectionOrder
       /\ (reportBuilt' \/ reportPublished') => ComparedAll']_vars

\* C5 as amended: as C5, but the report is built and published after the
\* comparison of all pairs has completed or after a fatal error (the finally
\* block publishes the current report).
C5_PhasesInOrder ==
    [][/\ PhaseOrder
       /\ CollectionOrder
       /\ (reportBuilt' \/ reportPublished') => (ComparedAll' \/ raised')
       /\ (phase' \in {"REPORTED", "DONE"}) =>
              (ComparedAll' /\ reportBuilt' /\ reportPublished')]_vars

\* C5 witness: a run that went through every phase and compared a pair.
C5_Witness ==
    /\ phase = "DONE"
    /\ Len(reportPairs) >= 1
    /\ Len(reportPairs) = Len(queries)
    /\ reportPublished

\* C6: after a run in which some query failed, the report that is built and
\* published holds an entry for every query of the list, the failed one
\* included.
C6_FailedQueryReported ==
    (pc = "done" /\ failed # {} /\ reportBuilt /\ reportPublished) =>
        \A k \in 1..Len(queries) :
            \E i \in 1..Len(reportPairs) : reportPairs[i].query = k

\* The steps named by exactly one of the selector's tokens.
ExactSteps(tokens) ==
    IF Join(tokens) = W_none
    THEN {}
    ELSE {step \in DDLSteps : StepToken(step) \in Range(tokens)}

\* C7: parse_ddls gives exactly the steps whose name is one of the
\* selector's comma-separated tokens; any other token adds no step, and the
\* selector 'none' gives the empty set.
C7_ExactTokens ==
    dpc = "parsed" => ddl_result = ExactSteps(ddl_tokens)

\* C8: parse_ddls gives the same set of steps for a selector and for every
\* rearrangement of its tokens (any order, tokens repeated).
C8_OrderIndependent ==
    dpc = "parsed" => ddl_result = ddl_result_perm

\* C8 witness: drop,create,import parsed against create,import,drop, both
\* giving CREATE, IMPORT and DROP.
C8_Witness ==
    /\ dpc = "parsed"
    /\ ddl_tokens = <<W_drop, W_create, W_import>>
    /\ ddl_perm = <<W_create, W_import, W_drop>>
    /\ ddl_result = {"CREATE", "IMPORT", "DROP"}
    /\ ddl_result_perm = ddl_result

Inverse(c) ==
    CASE c = "IMPROVED"  -> "REGRESSED"
      [] c = "REGRESSED" -> "IMPROVED"
      [] OTHER           -> c

Sign(n) == IF n > 0 THEN 1 ELSE IF n < 0 THEN 0 - 1 ELSE 0

NotSkipped ==
    /\ cpc = "compared"
    /\ cmp_ab.classification # "SKIPPED"

\* C9 as stated: for a pair that is not SKIPPED, compare(B,A) has the inverse
\* classification of compare(A,B) and exactly the negated delta.
C9_Original ==
    NotSkipped =>
        /\ cmp_ba.classification = Inverse(cmp_ab.classification)
        /\ cmp_ba.delta.num * cmp_ab.delta.den
              = (0 - cmp_ab.delta.num) * cmp_ba.delta.den

\* C9 as amended: for a pair that is not SKIPPED, the delta of compare(B,A)
\* has the opposite sign of the delta d of compare(A,B) and equals
\* -d / (1 + d); IMPROVED becomes REGRESSED, REGRESSED becomes IMPROVED or
\* UNCHANGED, and UNCHANGED becomes UNCHANGED or REGRESSED.
C9_SignAntisymmetric ==
    NotSkipped =>
        /\ cmp_ba.classification # "SKIPPED"
        /\ Sign(cmp_ba.delta.num) = 0 - Sign(cmp_ab.delta.num)
        /\ cmp_ba.delta.num * (cmp_ab.delta.den + cmp_ab.delta.num)
              = (0 - cmp_ab.delta.num) * cmp_ba.delta.den
        /\ cmp_ab.classification = "IMPROVED" =>
              cmp_ba.classification = "REGRESSED"
        /\ cmp_ab.classification = "REGRESSED" =>
              cmp_ba.classification \in {"IMPROVED", "UNCHANGED"}
        /\ cmp_ab.classification = "UNCHANGED" =>
              cmp_ba.classification \in {"UNCHANGED", "REGRESSED"}

\* C9 witness: an IMPROVED pair whose swap is REGRESSED.
C9_Witness ==
    /\ NotSkipped
    /\ cmp_ab.classification = "IMPROVED"
    /\ cmp_ba.classification = "REGRESSED"

\* C10: collect without --output ends with the validation error and never
\* evaluates the scenario; report with an unknown --type ends with an error,
\* no results file loaded and no report generated.
C10_ConfigErrorBeforeWork ==
    /\ (mpc # "idle" /\ args.action = "collect" /\ args.output = None) =>
          /\ ~main_evaluated
          /\ ~main_prompted
          /\ mpc # "evaluate"
          /\ (mpc = "done" /\ main_exit # "exception") =>
                 main_exit = "validation_error"
    /\ (mpc # "idle" /\ args.action = "report" /\ args.type \notin ReportTypes) =>
          /\ main_loaded = << >>
          /\ main_generated = None
          /\ (mpc = "done" /\ main_exit # "exception") =>
                 main_exit = "AttributeError"

\* C10 witness: collect without --output has ended with the validation error.
C10_Witness ==
    /\ mpc = "done"
    /\ args.action = "collect"
    /\ args.output = None
    /\ main_exit = "validation_error"

=============================================================================
